---- MODULE Spec2Model ----
(***************************************************************************)
(* HintLab: the import / export / clear layer of the backend               *)
(* (services/save_and_load_service.py and routers/save_and_load.py) as a   *)
(* state machine over the relational store.  One action per request        *)
(* handler; the service functions are operators over a cursor state.       *)
(***************************************************************************)
EXTENDS Integers, Sequences, FiniteSets, TLC

VARIABLES
    db,       \* the committed contents of the six tables
    clock,    \* the value datetime.now() returns to the next writing request
    last,     \* the last request: what was sent, what the handler did and answered
    reader,   \* an export request between its statements: what it has read so far
    txns      \* the import transactions of separate connections: what each will commit

vars == <<db, clock, last, reader, txns>>

(***************************************************************************)
(* Bounds of the model.                                                    *)
(***************************************************************************)
\* Writing requests (import, preset) a behaviour may hold.
MaxWrites == 2
\* The SQL statement of an import that the storage may reject: 1..MaxFailAt.
MaxFailAt == 6
\* The ids one writing request may draw from the id sequence.
IdBlock == 20
\* The longest candidates_full list the validator is given.
MaxCands == 3

Sessions == {"s1", "s2"}

(***************************************************************************)
(* Python / JSON values.  A dict is a record of all the keys its kind of   *)
(* object may carry; a key the dict does not hold maps to Absent.          *)
(***************************************************************************)
Absent == [t |-> "absent"]
None == [t |-> "none"]
Str(s) == [t |-> "str", v |-> s]
Num(n) == [t |-> "num", v |-> n]
Bool(b) == [t |-> "bool", v |-> b]
List(xs) == [t |-> "list", v |-> xs]
Dict(r) == [t |-> "dict", v |-> r]

True == Bool(TRUE)
False == Bool(FALSE)

IsDict(x) == x.t = "dict"

\* `k in d` for a dict d.
HasKey(d, k) == d.v[k].t # "absent"

\* bool(x): Python truthiness.
Truthy(x) ==
    CASE x.t = "none" -> FALSE
      [] x.t = "absent" -> FALSE
      [] x.t = "str" -> x.v # ""
      [] x.t = "num" -> x.v # 0
      [] x.t = "bool" -> x.v
      [] x.t = "list" -> Len(x.v) > 0
      [] x.t = "dict" -> \E k \in DOMAIN x.v : x.v[k].t # "absent"
      [] OTHER -> TRUE

\* d.get(k, default) for a dict d.
Get(d, k, default) == IF HasKey(d, k) THEN d.v[k] ELSE default

\* str(x), for the values a question field is given.
PyStr(x) ==
    CASE x.t = "str" -> x
      [] x.t = "none" -> Str("None")
      [] x.t = "num" -> Str("0")
      [] x.t = "bool" -> IF x.v THEN Str("True") ELSE Str("False")
      [] x.t = "list" -> IF Len(x.v) = 0 THEN Str("[]") ELSE Str("[...]")
      [] OTHER -> Str("{...}")

\* json.dumps(x) as stored in a metadata_json column, and json.loads of it.
JsonDumps(x) == [t |-> "jsontext", v |-> x]
JsonLoads(j) == j.v

(***************************************************************************)
(* The kinds of JSON object of the import / export documents.              *)
(***************************************************************************)
QuestionObj(q) == Dict([question |-> q])
AnswerObj(a) == Dict([answer |-> a])
MetricObj(n, v, md) == Dict([name |-> n, value |-> v, metadata |-> md])
EntityObj(tx, ty, st, en, md) ==
    Dict([text |-> tx, type |-> ty, start |-> st, end |-> en, metadata |-> md])
HintObj(h, ms, es) == Dict([hint |-> h, metrics |-> ms, entities |-> es])
CandObj(tx, el, cr, gt, up) ==
    Dict([text |-> tx, is_eliminated |-> el, created_at |-> cr,
          is_groundtruth |-> gt, updated_at |-> up])
InstancesObj(q, a, h, mn, c) ==
    Dict([question |-> q, answers |-> a, hints |-> h, model_name |-> mn,
          candidates_full |-> c])
EmptyInstances == InstancesObj(Absent, Absent, Absent, Absent, Absent)
Doc(inst) == Dict([instances |-> inst])

(***************************************************************************)
(* The store: six tables of rows.  Ids come from a sequence; deleting a    *)
(* question deletes the rows that hang off it.                             *)
(***************************************************************************)
EmptyDb ==
    [questions |-> {}, answers |-> {}, hints |-> {}, metrics |-> {},
     entities |-> {}, candidate_answers |-> {}]

\* The rows of a set in ascending id order (ORDER BY id ASC).
RECURSIVE OrderById(_)
OrderById(S) ==
    IF S = {} THEN <<>>
    ELSE LET r == CHOOSE x \in S : \A y \in S : x.id <= y.id
         IN <<r>> \o OrderById(S \ {r})

\* DELETE FROM questions WHERE session_id = s, with the schema's cascade.
CascadeDelete(d, s) ==
    LET qids == {q.id : q \in {x \in d.questions : x.session_id = s}}
        hids == {h.id : h \in {x \in d.hints : x.question_id \in qids}}
    IN [questions |-> {x \in d.questions : x.id \notin qids},
        answers |-> {x \in d.answers : x.question_id \notin qids},
        hints |-> {x \in d.hints : x.question_id \notin qids},
        metrics |-> {x \in d.metrics : x.hint_id \notin hids},
        entities |-> {x \in d.entities : x.hint_id \notin hids},
        candidate_answers |-> {x \in d.candidate_answers : x.question_id \notin qids}]

\* The rows a session owns, table by table.
SessionRows(d, s) ==
    LET qids == {q.id : q \in {x \in d.questions : x.session_id = s}}
        hids == {h.id : h \in {x \in d.hints : x.question_id \in qids}}
    IN [questions |-> {x \in d.questions : x.id \in qids},
        answers |-> {x \in d.answers : x.question_id \in qids},
        hints |-> {x \in d.hints : x.question_id \in qids},
        metrics |-> {x \in d.metrics : x.hint_id \in hids},
        entities |-> {x \in d.entities : x.hint_id \in hids},
        candidate_answers |-> {x \in d.candidate_answers : x.question_id \in qids}]

(***************************************************************************)
(* Export.                                                                 *)
(***************************************************************************)
\* get_last_question_id with ORDER BY created_at ASC.
GetFirstQuestionId(d, s) ==
    LET qs == {x \in d.questions : x.session_id = s}
    IN {q.id : q \in {x \in qs : \A y \in qs : x.created_at <= y.created_at}}

\* The ids get_last_question_id may return: the session's questions of the
\* greatest created_at (ORDER BY created_at DESC LIMIT 1); none gives {}.
get_last_question_id(d, s) ==
    LET qs == {x \in d.questions : x.session_id = s}
    IN {q.id : q \in {x \in qs : \A y \in qs : y.created_at <= x.created_at}}

ExportMetric(m) ==
    MetricObj(m.name, m.value,
              IF Truthy(m.metadata_json) THEN JsonLoads(m.metadata_json) ELSE Absent)

ExportEntity(e) ==
    EntityObj(e.entity, e.ent_type, e.start_index, e.end_index,
              IF Truthy(e.metadata_json) THEN JsonLoads(e.metadata_json) ELSE Absent)

ExportCandidate(c) ==
    CandObj(c.candidate_text, Bool(Truthy(c.is_eliminated)), c.created_at,
            Bool(Truthy(c.is_groundtruth)),
            IF Truthy(c.updated_at) THEN c.updated_at ELSE Absent)

ExportHint(d, h, full_export) ==
    LET ms == OrderById({m \in d.metrics : m.hint_id = h.id})
        es == OrderById({e \in d.entities : e.hint_id = h.id})
    IN HintObj(h.hint_text,
               IF full_export /\ Len(ms) > 0
               THEN List([i \in 1..Len(ms) |-> ExportMetric(ms[i])]) ELSE Absent,
               IF full_export /\ Len(es) > 0
               THEN List([i \in 1..Len(es) |-> ExportEntity(es[i])]) ELSE Absent)

\* ExportHintRows with ORDER BY id DESC.
ExportHintRowsDesc(d, qid) ==
    [i \in 1..Cardinality({h \in d.hints : h.question_id = qid}) |->
        OrderById({h \in d.hints : h.question_id = qid})
            [Cardinality({h \in d.hints : h.question_id = qid}) + 1 - i]]

\* The hint rows of a question as export lists them.
ExportHintRows(d, qid) == OrderById({h \in d.hints : h.question_id = qid})

\* Steps 1-5 of export_session_json for question qid, given the answer row
\* the LIMIT 1 query returned (a_text, model_name).
ExportInstance(d, qid, a_text, model_name, full_export) ==
    LET qrows == {q \in d.questions : q.id = qid}
        q_text == IF qrows = {} THEN Str("") ELSE (CHOOSE q \in qrows : TRUE).text
        hs == ExportHintRows(d, qid)
        cs == OrderById({c \in d.candidate_answers : c.question_id = qid})
    IN InstancesObj(
           QuestionObj(q_text),
           IF Truthy(a_text) THEN List(<<AnswerObj(a_text)>>) ELSE List(<<>>),
           List([i \in 1..Len(hs) |-> ExportHint(d, hs[i], full_export)]),
           IF full_export /\ Truthy(model_name) THEN model_name ELSE Absent,
           IF full_export /\ Len(cs) > 0
           THEN List([i \in 1..Len(cs) |-> ExportCandidate(cs[i])]) ELSE Absent)

\* export_session_json with the `if not qid` return left out.
ExportWithoutEmptyReturn(d, s, full_export) ==
    IF get_last_question_id(d, s) = {}
    THEN {Doc(ExportInstance(d, 0, Str(""), None, full_export))}
    ELSE UNION {
           IF {a \in d.answers : a.question_id = qid} = {}
           THEN {Doc(ExportInstance(d, qid, Str(""), None, full_export))}
           ELSE {Doc(ExportInstance(d, qid, a.answer_text, a.model_name, full_export))
                    : a \in {x \in d.answers : x.question_id = qid}}
           : qid \in get_last_question_id(d, s)}

\* The documents export_session_json may return.
export_session_json(d, s, full_export) ==
    LET qids == get_last_question_id(d, s)
    IN IF qids = {} THEN {Doc(EmptyInstances)}
       ELSE UNION {
              LET arows == {a \in d.answers : a.question_id = qid}
              IN IF arows = {}
                 THEN {Doc(ExportInstance(d, qid, Str(""), None, full_export))}
                 ELSE {Doc(ExportInstance(d, qid, a.answer_text, a.model_name,
                                          full_export)) : a \in arows}
              : qid \in qids}

(***************************************************************************)
(* A connection inside a transaction: the rows it sees (d), the rows at    *)
(* the start of the transaction (base), the statements it has issued       *)
(* (log) and the exception in flight (err).  Once err is set every later   *)
(* step is skipped, as the raise skips the rest of the function.           *)
(***************************************************************************)
Exc(type, msg, n) == [type |-> type, msg |-> msg, n |-> n]
NoExc == Exc("none", "", 0)

ZeroCounts == [q |-> 0, h |-> 0, m |-> 0, e |-> 0, c |-> 0]

\* The next value of the id sequence when the request at time `now` starts:
\* above every id an earlier request drew.
NextId(now) == (now - 1) * IdBlock + 1

Connect(d, now, fail_at) ==
    [d |-> d, base |-> d, next_id |-> NextId(now), now |-> now, fail_at |-> fail_at,
     log |-> <<>>, err |-> NoExc, returning |-> 0, qid |-> 0, aid |-> 0,
     hid |-> 0, counts |-> ZeroCounts, gen_called |-> FALSE]

Ok(c) == c.err = NoExc

Raise(c, e) == IF Ok(c) THEN [c EXCEPT !.err = e] ELSE c

\* cur.execute of one statement whose effect on the rows is d2; the storage
\* rejects the statement numbered fail_at.
Execute(c, tag, d2) ==
    IF ~Ok(c) THEN c
    ELSE IF Len(c.log) + 1 = c.fail_at
         THEN [c EXCEPT !.log = Append(@, tag),
                        !.err = Exc("DatabaseError", "statement rejected", 0)]
         ELSE [c EXCEPT !.log = Append(@, tag), !.d = d2]

\* RETURNING id: the id the executed INSERT gave its row.
Returning(c, id) ==
    IF Ok(c) THEN [c EXCEPT !.next_id = @ + 1, !.returning = id] ELSE c

\* INSERT INTO table ... RETURNING id.
Insert(c, table, fields) ==
    Returning(Execute(c, <<"INSERT", table>>,
                      [c.d EXCEPT ![table] = @ \union {[id |-> c.next_id] @@ fields}]),
              c.next_id)

\* counts[k] += 1 after an INSERT that did not raise.
Counted(c, k) == IF Ok(c) THEN [c EXCEPT !.counts[k] = @ + 1] ELSE c

Commit(c) == [c EXCEPT !.base = c.d]

\* Rollback with the conn.rollback() call left out.
RollbackLeftOut(c) == c

Rollback(c) == [c EXCEPT !.d = c.base]

\* clear_session_data with the WHERE session_id = %s left out.
ClearEverySession(c, session_id) ==
    Execute(c, <<"DELETE", "questions">>, EmptyDb)

clear_session_data(c, session_id) ==
    Execute(c, <<"DELETE", "questions">>, CascadeDelete(c.d, session_id))

(***************************************************************************)
(* Format detection and structural validation.                             *)
(***************************************************************************)
\* `k in s` for a str s: substring search, over the strings in use.
SubstringOf(k, s) ==
    \/ s = k
    \/ k = "metrics" /\ s = "Compare the metrics"

\* `k in x` for any value: "true", "false", or "TypeError" where x is no
\* container.
In(k, x) ==
    CASE x.t = "dict" -> IF HasKey(x, k) THEN "true" ELSE "false"
      [] x.t = "list" -> IF \E i \in 1..Len(x.v) : x.v[i] = Str(k)
                         THEN "true" ELSE "false"
      [] x.t = "str" -> IF SubstringOf(k, x.v) THEN "true" ELSE "false"
      [] OTHER -> "TypeError"

\* The body of is_full_backup_format's try block.
FullBackupProbe(data) ==
    LET top == In("instances", data)
    IN IF top # "true" THEN (IF top = "TypeError" THEN top ELSE "false")
       ELSE IF data.t # "dict" THEN "TypeError"
       ELSE LET inst == data.v.instances
                cf == In("candidates_full", inst)
            IN IF cf = "true" THEN "true"
               ELSE IF cf = "TypeError" THEN cf
               ELSE LET hk == In("hints", inst)
                    IN IF hk # "true" \/ inst.t # "dict" THEN "false"
                       ELSE IF ~Truthy(inst.v.hints) THEN "false"
                       ELSE IF inst.v.hints.t # "list" THEN "false"
                       ELSE In("metrics", inst.v.hints.v[1])

\* The bare except turns any exception into False.
is_full_backup_format(data) == FullBackupProbe(data) = "true"

is_simple_json_format(data) == In("instances", data) = "true"

\* GtCount with `if c.get("is_groundtruth")` in place of `is True`.
GtCountTruthy(cands) ==
    Cardinality({i \in 1..Len(cands) : Truthy(Get(cands[i], "is_groundtruth", None))})

\* The number of candidates c with c.get("is_groundtruth") is True.
GtCount(cands) ==
    Cardinality({i \in 1..Len(cands) : Get(cands[i], "is_groundtruth", None) = True})

\* The messages of the validator; the count that ends the second is the
\* exception's n.
COUNT_ERROR == "Full Backup Error: Must have at least 2 candidates in 'candidates_full'."
GT_ERROR ==
    "Full Backup Error: Candidates must have exactly one item with 'is_groundtruth': true. Found n."

\* The exception validate_full_import_structure raises, NoExc when it passes.
validate_full_import_structure(data) ==
    IF data.t # "dict" THEN Exc("AttributeError", "get", 0)
    ELSE LET inst == Get(data, "instances", EmptyInstances)
         IN IF ~Truthy(inst)
            THEN Exc("ValueError", "Structure Error: 'instances' object is missing.", 0)
            ELSE IF inst.t # "dict" THEN Exc("AttributeError", "get", 0)
            ELSE LET cands == Get(inst, "candidates_full", List(<<>>))
                 IN IF ~Truthy(cands) \/ Len(cands.v) < 2
                    THEN Exc("ValueError", COUNT_ERROR, 0)
                    ELSE IF \E i \in 1..Len(cands.v) : ~IsDict(cands.v[i])
                    THEN Exc("AttributeError", "get", 0)
                    ELSE IF GtCount(cands.v) # 1
                    THEN Exc("ValueError", GT_ERROR, GtCount(cands.v))
                    ELSE NoExc

(***************************************************************************)
(* The CSV adapter.  An upload's text is the rows csv.reader splits it     *)
(* into: a header row and data rows, each a sequence of cells.             *)
(***************************************************************************)
\* str.strip() and str.lower() on the cells the uploads hold.
Strip(s) ==
    CASE s = " Content " -> "Content"
      [] s = " hint " -> "hint"
      [] s = " Q2 " -> "Q2"
      [] s = "  " -> ""
      [] OTHER -> s

Lower(s) ==
    CASE s = "Type" -> "type"
      [] s = "Content" -> "content"
      [] s = "Question" -> "question"
      [] OTHER -> s

StructObj(q, a, hs) == Dict([question |-> q, answer |-> a, hints |-> hs])

\* row.get(col, "") of csv.DictReader: the cell under the normalised header
\* name (the last such column), None where the row is too short, "" where
\* the header has no such column.
RowGet(fieldnames, row, col) ==
    LET idx == {i \in 1..Len(fieldnames) : fieldnames[i] = col}
    IN IF idx = {} THEN Str("")
       ELSE LET i == CHOOSE x \in idx : \A y \in idx : y <= x
            IN IF i <= Len(row) THEN Str(row[i]) ELSE None

\* The loop of parse_csv_to_structure from row i on; st is the structure so
\* far, or the exception raised.
RECURSIVE ParseRows(_, _, _, _)
ParseRows(fieldnames, rows, i, st) ==
    IF i > Len(rows) THEN [struct |-> st, err |-> NoExc]
    ELSE LET ty == RowGet(fieldnames, rows[i], "type")
             co == RowGet(fieldnames, rows[i], "content")
         IN IF ty.t # "str" \/ co.t # "str"
            THEN [struct |-> st, err |-> Exc("AttributeError", "strip", 0)]
            ELSE LET rtype == Lower(Strip(ty.v))
                     content == Strip(co.v)
                 IN IF content = "" THEN ParseRows(fieldnames, rows, i + 1, st)
                    ELSE ParseRows(fieldnames, rows, i + 1,
                           CASE rtype = "question" ->
                                  StructObj(Str(content), st.v.answer, st.v.hints)
                             [] rtype = "answer" ->
                                  StructObj(st.v.question, Str(content), st.v.hints)
                             [] rtype = "hint" ->
                                  StructObj(st.v.question, st.v.answer,
                                            List(Append(st.v.hints.v,
                                                        HintObj(Str(content), Absent, Absent))))
                             [] OTHER -> st)

\* parse_csv_to_structure of an upload's bytes: [struct, err].
parse_csv_to_structure(content) ==
    LET empty == StructObj(Str(""), Str(""), List(<<>>))
    IN IF content.k = "badutf8"
       THEN [struct |-> empty, err |-> Exc("ValueError", "UnicodeDecodeError", 0)]
       ELSE IF content.k # "csv"
       THEN [struct |-> empty, err |-> NoExc]
       ELSE ParseRows([i \in 1..Len(content.header) |-> Lower(Strip(content.header[i]))],
                      content.rows, 1, empty)


(***************************************************************************)
(* Insertion.                                                              *)
(***************************************************************************)
DEFAULT_MODEL == "meta-llama/Llama-3.3-70B-Instruct-Turbo"
GEN_FAILED == "[Error: Generation Failed]"

\* What the answer-generation collaborator may do when called.
GenOutcomes == {"answers", "raises"}

\* generate_only_answer inside its try / except.
GeneratedAnswer(gen) ==
    IF gen = "raises" THEN Str(GEN_FAILED) ELSE Str("generated answer")

\* return qid, aid
QaReturn(c, qid) == IF Ok(c) THEN [c EXCEPT !.qid = qid, !.aid = c.returning] ELSE c

\* QaAnswer without the try / except around generate_only_answer.
QaAnswerUnguarded(c, a_text, gen) ==
    QaReturn(IF Truthy(a_text)
             THEN Insert(c, "answers",
                         [question_id |-> c.returning, answer_text |-> a_text,
                          model_name |-> None])
             ELSE IF gen = "raises"
             THEN Raise([c EXCEPT !.gen_called = Ok(c)],
                        Exc("GenerationError", "generate_only_answer", 0))
             ELSE Insert([c EXCEPT !.gen_called = Ok(c)], "answers",
                         [question_id |-> c.returning,
                          answer_text |-> GeneratedAnswer(gen),
                          model_name |-> Str(DEFAULT_MODEL)]),
             c.returning)

\* The answer branch of insert_qa_core, c being the connection after the
\* question's INSERT.
QaAnswer(c, a_text, gen) ==
    QaReturn(IF Truthy(a_text)
             THEN Insert(c, "answers",
                         [question_id |-> c.returning, answer_text |-> a_text,
                          model_name |-> None])
             ELSE Insert([c EXCEPT !.gen_called = Ok(c)], "answers",
                         [question_id |-> c.returning,
                          answer_text |-> GeneratedAnswer(gen),
                          model_name |-> Str(DEFAULT_MODEL)]),
             c.returning)

insert_qa_core(c, session_id, q_text, a_text, gen) ==
    QaAnswer(Insert(c, "questions",
                    [text |-> q_text, session_id |-> session_id, created_at |-> c.now]),
             a_text, gen)

\* q_raw.get("question", "") if isinstance(q_raw, dict) else str(q_raw)
QuestionText(q_raw) ==
    IF IsDict(q_raw) THEN Get(q_raw, "question", Str("")) ELSE PyStr(q_raw)

\* h.get("hint", "") if isinstance(h, dict) else str(h)
HintText(h) == IF IsDict(h) THEN Get(h, "hint", Str("")) ELSE PyStr(h)

\* ans_list[0].get("answer", "") if isinstance(ans_list[0], dict) else str(ans_list[0])
FirstAnswer(ans_list) ==
    IF ~Truthy(ans_list) THEN Str("")
    ELSE IF IsDict(ans_list.v[1]) THEN Get(ans_list.v[1], "answer", Str(""))
    ELSE PyStr(ans_list.v[1])

\* SimpleHint with count += 1 outside the `if h_text`.
SimpleHintCountingAll(c, h_text) ==
    IF Truthy(h_text)
    THEN Counted(Insert(c, "hints",
                        [question_id |-> c.qid, answer_id |-> c.aid,
                         hint_text |-> h_text]), "h")
    ELSE Counted(c, "h")

\* One pass of the hint loop of insert_simple_structure.
SimpleHint(c, h_text) ==
    IF Truthy(h_text)
    THEN Counted(Insert(c, "hints",
                        [question_id |-> c.qid, answer_id |-> c.aid,
                         hint_text |-> h_text]), "h")
    ELSE c

RECURSIVE SimpleHints(_, _, _)
SimpleHints(c, hints, i) ==
    IF ~Ok(c) \/ i > Len(hints) THEN c
    ELSE SimpleHints(SimpleHint(c, HintText(hints[i])), hints, i + 1)

\* for h in hints_list, c being the connection after insert_qa_core.
SimpleHintLoop(c, hints_list) ==
    IF hints_list.t # "list" THEN Raise(c, Exc("TypeError", "not iterable", 0))
    ELSE SimpleHints(Counted(c, "q"), hints_list.v, 1)

\* The rest of insert_simple_structure once q_text, a_text and hints_list are read.
SimpleInsert(c, session_id, q_text, a_text, hints_list, gen) ==
    IF ~Truthy(q_text)
    THEN Raise(c, Exc("ValueError", "Import failed: Missing question text.", 0))
    ELSE SimpleHintLoop(insert_qa_core(c, session_id, q_text, a_text, gen), hints_list)

\* The from_csv = False branch, content being data.get("instances", {}).
SimpleContent(c, session_id, content, gen) ==
    IF ~Truthy(content)
    THEN Raise(c, Exc("ValueError", "Invalid Simple JSON: Missing 'instances' key.", 0))
    ELSE IF ~IsDict(content) THEN Raise(c, Exc("AttributeError", "get", 0))
    ELSE SimpleInsert(c, session_id,
                      QuestionText(Get(content, "question", QuestionObj(Absent))),
                      FirstAnswer(Get(content, "answers", List(<<>>))),
                      Get(content, "hints", List(<<>>)), gen)

insert_simple_structure(c, session_id, data, from_csv, gen) ==
    IF ~Ok(c) THEN c
    ELSE IF from_csv
    THEN SimpleInsert(c, session_id, Get(data, "question", Str("")),
                      Get(data, "answer", Str("")), Get(data, "hints", List(<<>>)), gen)
    ELSE IF ~IsDict(data) THEN Raise(c, Exc("AttributeError", "get", 0))
    ELSE SimpleContent(c, session_id, Get(data, "instances", EmptyInstances), gen)

\* x[k] for a dict x: the exception where a key is missing.
MissingKey(x, keys) == \E k \in keys : ~HasKey(x, k)

\* json.dumps(x.get("metadata")) if x.get("metadata") else None
MetaColumn(x) ==
    IF Truthy(Get(x, "metadata", None)) THEN JsonDumps(x.v.metadata) ELSE None

\* One pass of the candidate loop of insert_full_backup.
FullCandidate(c, x) ==
    IF ~IsDict(x) THEN Raise(c, Exc("TypeError", "subscript", 0))
    ELSE IF MissingKey(x, {"text"}) THEN Raise(c, Exc("KeyError", "text", 0))
    ELSE Counted(Insert(c, "candidate_answers",
                        [question_id |-> c.qid,
                         candidate_text |-> x.v.text,
                         is_eliminated |-> Bool(Truthy(Get(x, "is_eliminated", False))),
                         created_at |-> Get(x, "created_at", Num(c.now)),
                         updated_at |-> Get(x, "updated_at", None),
                         is_groundtruth |-> Bool(Truthy(Get(x, "is_groundtruth", False)))]),
                 "c")

RECURSIVE FullCandidates(_, _, _)
FullCandidates(c, cands, i) ==
    IF ~Ok(c) \/ i > Len(cands) THEN c
    ELSE FullCandidates(FullCandidate(c, cands[i]), cands, i + 1)

\* One pass of the metric loop.
FullMetric(c, m) ==
    IF ~IsDict(m) THEN Raise(c, Exc("AttributeError", "get", 0))
    ELSE IF MissingKey(m, {"name"}) THEN Raise(c, Exc("KeyError", "name", 0))
    ELSE Counted(Insert(c, "metrics",
                        [hint_id |-> c.hid, name |-> m.v.name,
                         value |-> Get(m, "value", None),
                         metadata_json |-> MetaColumn(m)]), "m")

RECURSIVE FullMetrics(_, _, _)
FullMetrics(c, ms, i) ==
    IF ~Ok(c) \/ i > Len(ms) THEN c
    ELSE FullMetrics(FullMetric(c, ms[i]), ms, i + 1)

\* One pass of the entity loop.
FullEntity(c, e) ==
    IF ~IsDict(e) THEN Raise(c, Exc("AttributeError", "get", 0))
    ELSE IF MissingKey(e, {"text", "type", "start", "end"})
    THEN Raise(c, Exc("KeyError", "entity field", 0))
    ELSE Counted(Insert(c, "entities",
                        [hint_id |-> c.hid, entity |-> e.v.text,
                         ent_type |-> e.v.type, start_index |-> e.v.start,
                         end_index |-> e.v.end, metadata_json |-> MetaColumn(e)]), "e")

RECURSIVE FullEntities(_, _, _)
FullEntities(c, es, i) ==
    IF ~Ok(c) \/ i > Len(es) THEN c
    ELSE FullEntities(FullEntity(c, es[i]), es, i + 1)

\* A list-valued field as a for loop walks it: its elements, or the
\* TypeError of iterating a value that is no list.
Iterate(c, x) == IF x.t = "list" THEN c ELSE Raise(c, Exc("TypeError", "not iterable", 0))
Elements(x) == IF x.t = "list" THEN x.v ELSE <<>>

\* HintReturn keeping the question's id where the hint's is meant.
HintReturnQuestionId(c) ==
    IF Ok(c) THEN [c EXCEPT !.hid = c.qid, !.counts.h = @ + 1] ELSE c

\* hid = cur.fetchone()[0]; counts["h"] += 1
HintReturn(c) == IF Ok(c) THEN [c EXCEPT !.hid = c.returning, !.counts.h = @ + 1] ELSE c

\* The metric and entity loops of one hint, c being the connection after
\* the hint's INSERT.
HintParts(c, ms, es) ==
    FullEntities(Iterate(FullMetrics(Iterate(c, ms), Elements(ms), 1), es),
                 Elements(es), 1)

\* One pass of the hint loop of insert_full_backup.
FullHint(c, h) ==
    IF ~IsDict(h) THEN Raise(c, Exc("AttributeError", "get", 0))
    ELSE IF ~Truthy(Get(h, "hint", Str(""))) THEN c
    ELSE HintParts(HintReturn(Insert(c, "hints",
                                     [question_id |-> c.qid, answer_id |-> c.aid,
                                      hint_text |-> h.v.hint])),
                   Get(h, "metrics", List(<<>>)), Get(h, "entities", List(<<>>)))

RECURSIVE FullHints(_, _, _)
FullHints(c, hints, i) ==
    IF ~Ok(c) \/ i > Len(hints) THEN c
    ELSE FullHints(FullHint(c, hints[i]), hints, i + 1)

\* The candidate and hint loops, c being the connection after insert_qa_core.
FullLoops(c, cands, hints) ==
    FullHints(Iterate(FullCandidates(Iterate(Counted(c, "q"), cands), Elements(cands), 1),
                      hints),
              Elements(hints), 1)

\* insert_full_backup from its reading of the answers on.
FullContent(c, session_id, content, q_text, ans_list, gen) ==
    IF Truthy(ans_list) /\ ~IsDict(ans_list.v[1])
    THEN Raise(c, Exc("AttributeError", "get", 0))
    ELSE IF ~Truthy(q_text)
    THEN Raise(c, Exc("ValueError", "Missing question text in backup.", 0))
    ELSE FullLoops(insert_qa_core(c, session_id, q_text,
                                  IF Truthy(ans_list)
                                  THEN Get(ans_list.v[1], "answer", Str("")) ELSE Str(""),
                                  gen),
                   Get(content, "candidates_full", List(<<>>)),
                   Get(content, "hints", List(<<>>)))

insert_full_backup(c, session_id, data, gen) ==
    IF ~Ok(c) THEN c
    ELSE FullContent(c, session_id, Get(data, "instances", EmptyInstances),
                     QuestionText(Get(Get(data, "instances", EmptyInstances),
                                      "question", QuestionObj(Absent))),
                     Get(Get(data, "instances", EmptyInstances), "answers", List(<<>>)),
                     gen)

(***************************************************************************)
(* import_session_data: the connection as the call leaves it.              *)
(***************************************************************************)
\* The detector's answer for a parsed JSON payload.
DetectFormat(data) ==
    IF is_full_backup_format(data) THEN "full_backup"
    ELSE IF is_simple_json_format(data) THEN "simple"
    ELSE "invalid"

\* conn.commit() at the end of the try block, conn.rollback() in its except.
CommitOrRollback(c) == IF Ok(c) THEN Commit(c) ELSE Rollback(c)

\* The csv branch: parsed is what parse_csv_to_structure gave or raised.
InsertParsed(c, session_id, parsed, gen) ==
    insert_simple_structure(Raise(c, parsed.err), session_id, parsed.struct, TRUE, gen)

\* import_session_data with the clear_session_data call left out.
ImportWithoutClear(c, session_id, data, format_type, gen) ==
    IF format_type = "json" /\ is_full_backup_format(data)
       /\ validate_full_import_structure(data) # NoExc
    THEN Raise(c, validate_full_import_structure(data))
    ELSE CommitOrRollback(
           IF format_type = "csv"
           THEN InsertParsed(c, session_id, parse_csv_to_structure(data), gen)
           ELSE IF is_full_backup_format(data)
           THEN insert_full_backup(c, session_id, data, gen)
           ELSE insert_simple_structure(c, session_id, data, FALSE, gen))

\* import_session_data with the validator called after the clear, inside
\* the try block.
ImportValidatingAfterClear(c, session_id, data, format_type, gen) ==
    CommitOrRollback(
      IF format_type = "csv"
      THEN InsertParsed(clear_session_data(c, session_id), session_id,
                        parse_csv_to_structure(data), gen)
      ELSE IF is_full_backup_format(data)
      THEN insert_full_backup(Raise(clear_session_data(c, session_id),
                                    validate_full_import_structure(data)),
                              session_id, data, gen)
      ELSE insert_simple_structure(clear_session_data(c, session_id), session_id,
                                   data, FALSE, gen))

import_session_data(c, session_id, data, format_type, gen) ==
    IF format_type = "json" /\ is_full_backup_format(data)
       /\ validate_full_import_structure(data) # NoExc
    THEN Raise(c, validate_full_import_structure(data))
    ELSE CommitOrRollback(
           IF format_type = "csv"
           THEN InsertParsed(clear_session_data(c, session_id), session_id,
                             parse_csv_to_structure(data), gen)
           ELSE IF is_full_backup_format(data)
           THEN insert_full_backup(clear_session_data(c, session_id), session_id, data, gen)
           ELSE insert_simple_structure(clear_session_data(c, session_id), session_id,
                                        data, FALSE, gen))

(***************************************************************************)
(* load_full_preset_state.  A preset is a record: question, groundTruth,   *)
(* hints (hint_id, hint_text), metricsById (hint_id -> name/value pairs)   *)
(* and candidates (absent, or the ground-truth text and the texts).        *)
(***************************************************************************)
\* data.get('metricsById', {}).get(preset_local_id, {}).items()
PresetMetricsOf(data, hint_id) ==
    IF hint_id \in DOMAIN data.metricsById THEN data.metricsById[hint_id] ELSE <<>>

RECURSIVE PresetMetrics(_, _, _)
PresetMetrics(c, items, i) ==
    IF ~Ok(c) \/ i > Len(items) THEN c
    ELSE IF items[i].value = None THEN PresetMetrics(c, items, i + 1)
    ELSE PresetMetrics(Insert(c, "metrics",
                              [hint_id |-> c.hid, name |-> items[i].name,
                               value |-> items[i].value, metadata_json |-> None]),
                       items, i + 1)

\* real_hint_id = cur.fetchone()[0]
PresetHintReturn(c) == IF Ok(c) THEN [c EXCEPT !.hid = c.returning] ELSE c

RECURSIVE PresetHints(_, _, _)
PresetHints(c, data, i) ==
    IF ~Ok(c) \/ i > Len(data.hints) THEN c
    ELSE PresetHints(
             PresetMetrics(
                 PresetHintReturn(Insert(c, "hints",
                                         [question_id |-> c.qid, answer_id |-> c.aid,
                                          hint_text |-> data.hints[i].hint_text])),
                 PresetMetricsOf(data, data.hints[i].hint_id), 1),
             data, i + 1)

RECURSIVE PresetCandidates(_, _, _)
PresetCandidates(c, cand, i) ==
    IF ~Ok(c) \/ i > Len(cand.candidate_texts) THEN c
    ELSE PresetCandidates(
             Insert(c, "candidate_answers",
                    [question_id |-> c.qid,
                     candidate_text |-> cand.candidate_texts[i],
                     is_eliminated |-> False,
                     created_at |-> Num(c.now),
                     updated_at |-> None,
                     is_groundtruth |->
                         Bool(cand.candidate_texts[i] = cand.is_groundtruth_candidate)]),
             cand, i + 1)

\* qid = cur.fetchone()[0] and aid = cur.fetchone()[0]
PresetQid(c) == IF Ok(c) THEN [c EXCEPT !.qid = c.returning] ELSE c
PresetAid(c) == IF Ok(c) THEN [c EXCEPT !.aid = c.returning] ELSE c

\* The answer's INSERT, c being the connection after the question's.
PresetAnswer(c, data) ==
    PresetAid(Insert(c, "answers",
                     [question_id |-> c.qid, answer_text |-> data.groundTruth,
                      model_name |-> None]))

\* candidates = data.get('candidates', []) and the loop over its texts.
PresetCandidateLoop(c, data) ==
    IF data.candidates.t = "absent" THEN Raise(c, Exc("AttributeError", "get", 0))
    ELSE PresetCandidates(c, data.candidates.v, 1)

load_full_preset_state(c, session_id, data) ==
    CommitOrRollback(
        PresetCandidateLoop(
            PresetHints(
                PresetAnswer(
                    PresetQid(Insert(c, "questions",
                                     [text |-> data.question, session_id |-> session_id,
                                      created_at |-> c.now])),
                    data),
                data, 1),
            data))

(***************************************************************************)
(* The request handlers of routers/save_and_load.py.                       *)
(***************************************************************************)
\* (file.filename or "").lower()
LowerName(name) ==
    IF ~Truthy(name) THEN ""
    ELSE CASE name.v = "BACKUP.JSON" -> "backup.json"
           [] name.v = "Session.CSV" -> "session.csv"
           [] OTHER -> name.v

\* filename.endswith(ext), for the lower-cased names in use.
EndsWith(filename, ext) ==
    \/ ext = ".json" /\ filename \in {"backup.json", "hinteval_session.json",
                                      "hinteval_backup_full.json"}
    \/ ext = ".csv" /\ filename \in {"session.csv", "hinteval_session.csv"}

\* Decode with the extension test left out: anything not .csv is read as JSON.
DecodeAnyName(upload) ==
    IF EndsWith(LowerName(upload.filename), ".csv")
    THEN [data |-> upload.content, format_type |-> "csv", err |-> NoExc]
    ELSE IF upload.content.k = "json"
    THEN [data |-> upload.content.v, format_type |-> "json", err |-> NoExc]
    ELSE [data |-> None, format_type |-> "json",
          err |-> Exc("HTTPException", "Invalid JSON syntax", 400)]

\* The decode step of import_session: the payload and format handed on, or
\* the exception raised inside the handler's try block.
Decode(upload) ==
    IF EndsWith(LowerName(upload.filename), ".json")
    THEN IF upload.content.k = "badutf8"
         THEN [data |-> None, format_type |-> "json",
               err |-> Exc("ValueError", "UnicodeDecodeError", 0)]
         ELSE IF upload.content.k # "json"
         THEN [data |-> None, format_type |-> "json",
               err |-> Exc("HTTPException", "Invalid JSON syntax", 400)]
         ELSE [data |-> upload.content.v, format_type |-> "json", err |-> NoExc]
    ELSE IF EndsWith(LowerName(upload.filename), ".csv")
    THEN [data |-> upload.content, format_type |-> "csv", err |-> NoExc]
    ELSE [data |-> None, format_type |-> "json",
          err |-> Exc("HTTPException", "Unsupported file type. Use .json or .csv", 400)]

\* The except clauses of import_session: the status of the response for an
\* exception raised inside the try block.
ImportStatus(err) ==
    IF err = NoExc THEN 200
    ELSE IF err.type = "ValueError" THEN 400
    ELSE 500

\* What the connection dependency does with the transaction of a handler
\* that returned: the statements it issued are made durable.
ReleaseConnection(c) == IF Ok(c) THEN Commit(c) ELSE Rollback(c)

NotRun == Exc("not run", "", 0)

\* The dict clear_session_data returns.
ClearStats == [cleared |-> TRUE, message |-> "Session wiped."]
NoStats == [cleared |-> FALSE, message |-> ""]

\* CsvRows with the answer row left out.
CsvRowsNoAnswer(inst) ==
    IF ~Truthy(inst) THEN <<>>
    ELSE (IF Truthy(Get(Get(inst, "question", QuestionObj(Absent)), "question", Str("")))
          THEN << <<"question", inst.v.question.v.question.v>> >> ELSE <<>>)
         \o SelectSeq([i \in 1..Len(inst.v.hints.v) |->
                          <<"hint", HintText(inst.v.hints.v[i]).v>>],
                      LAMBDA r : r[2] # "")

\* The data rows export_session_csv_stream writes for the instances object
\* of a simple export.
CsvRows(inst) ==
    IF ~Truthy(inst) THEN <<>>
    ELSE (IF Truthy(Get(Get(inst, "question", QuestionObj(Absent)), "question", Str("")))
          THEN << <<"question", inst.v.question.v.question.v>> >> ELSE <<>>)
         \o (IF Truthy(FirstAnswer(Get(inst, "answers", List(<<>>))))
             THEN << <<"answer", FirstAnswer(inst.v.answers).v>> >> ELSE <<>>)
         \o SelectSeq([i \in 1..Len(inst.v.hints.v) |->
                          <<"hint", HintText(inst.v.hints.v[i]).v>>],
                      LAMBDA r : r[2] # "")

\* The text export_session_csv_stream returns: the header row and the data
\* rows, as csv.reader splits them again.
export_session_csv_stream(d, s) ==
    {[k |-> "csv", header |-> <<"type", "content">>, rows |-> CsvRows(doc.v.instances)] :
        doc \in export_session_json(d, s, FALSE)}

NoUpload == [filename |-> None, content |-> [k |-> "none"]]
NoBody == [k |-> "none"]

\* The connections that may hold an import transaction open.
Txns == {1, 2}

\* No export request is between two of its statements.
Idle ==
    [pc |-> "idle", session |-> "", full_export |-> FALSE, qid |-> 0,
     q_text |-> Str(""), a_text |-> Str(""), model_name |-> None,
     hint_rows |-> <<>>, i |-> 0, metrics |-> {}, hints |-> <<>>,
     seen |-> {}, body |-> NoBody]

Init ==
    /\ db = EmptyDb
    /\ clock = 1
    /\ reader = Idle
    /\ txns = [t \in Txns |->
                 [pc |-> "none", session |-> "", upload |-> NoUpload, now |-> 0,
                  deleted |-> EmptyDb, inserted |-> EmptyDb, counts |-> ZeroCounts,
                  overlaps |-> {}]]
    /\ last = [op |-> "none", session |-> "", upload |-> NoUpload, format |-> "none",
               from_export |-> FALSE, pre_count |-> 0, status |-> 0, exc |-> NoExc,
               called |-> FALSE, detected |-> "none", valid |-> NotRun, log |-> <<>>,
               counts |-> ZeroCounts, gen_called |-> FALSE, gen |-> "none", cleared |-> NoStats,
               body |-> NoBody]

QuestionCount(d, s) == Cardinality({q \in d.questions : q.session_id = s})

\* The response of import_session and the state it leaves: dec is what the
\* decode step gave, c the connection when the handler ends.
ImportRespond(s, upload, gen, from_export, dec, c) ==
    /\ db' = c.d
    /\ clock' = IF Ok(c) THEN clock + 1 ELSE clock
    /\ last' = [op |-> "import", session |-> s, upload |-> upload,
                format |-> dec.format_type, from_export |-> from_export,
                pre_count |-> QuestionCount(db, s),
                status |-> ImportStatus(c.err), exc |-> c.err,
                called |-> dec.err = NoExc,
                detected |-> IF dec.err = NoExc /\ dec.format_type = "json"
                             THEN DetectFormat(dec.data) ELSE "none",
                valid |-> IF dec.err = NoExc /\ dec.format_type = "json"
                             /\ is_full_backup_format(dec.data)
                          THEN validate_full_import_structure(dec.data)
                          ELSE NotRun,
                log |-> c.log, counts |-> c.counts, gen_called |-> c.gen_called,
                gen |-> IF c.gen_called THEN gen ELSE "none",
                cleared |-> IF Ok(c) THEN ClearStats ELSE NoStats,
                body |-> NoBody]
    /\ UNCHANGED <<reader, txns>>

\* The handler's try block once the upload is decoded.
ImportDecoded(s, upload, gen, fail_at, from_export, dec) ==
    ImportRespond(s, upload, gen, from_export, dec,
                  IF dec.err = NoExc
                  THEN import_session_data(Connect(db, clock, fail_at), s, dec.data,
                                           dec.format_type, gen)
                  ELSE Raise(Connect(db, clock, fail_at), dec.err))

\* POST /import
import_session(s, upload, gen, fail_at, from_export) ==
    /\ clock <= MaxWrites
    /\ ImportDecoded(s, upload, gen, fail_at, from_export, Decode(upload))

\* GET /export
export_session(s, format) ==
    \E body \in (IF format = "csv" THEN export_session_csv_stream(db, s)
                 ELSE {[k |-> "json", v |-> doc] :
                          doc \in export_session_json(db, s, format = "full_json")}) :
        /\ last' = [op |-> "export", session |-> s, upload |-> NoUpload,
                    format |-> format, from_export |-> FALSE,
                    pre_count |-> QuestionCount(db, s), status |-> 200, exc |-> NoExc,
                    called |-> FALSE, detected |-> "none", valid |-> NotRun,
                    log |-> <<>>, counts |-> ZeroCounts, gen_called |-> FALSE, gen |-> "none",
                    cleared |-> NoStats, body |-> body]
        /\ UNCHANGED <<db, clock, reader, txns>>

\* The response of clear_session, c being the connection when the request ends.
ClearRespond(s, c) ==
    /\ db' = c.d
    /\ last' = [op |-> "clear", session |-> s, upload |-> NoUpload, format |-> "none",
                from_export |-> FALSE, pre_count |-> QuestionCount(db, s),
                status |-> IF Ok(c) THEN 200 ELSE 500, exc |-> c.err,
                called |-> FALSE, detected |-> "none", valid |-> NotRun,
                log |-> c.log, counts |-> ZeroCounts, gen_called |-> FALSE, gen |-> "none",
                cleared |-> IF Ok(c) THEN ClearStats ELSE NoStats,
                body |-> NoBody]
    /\ UNCHANGED <<clock, reader, txns>>

\* DELETE /clear
clear_session(s, fail_at) ==
    ClearRespond(s, ReleaseConnection(clear_session_data(Connect(db, clock, fail_at), s)))

PresetRespond(s, c) ==
    /\ db' = c.d
    /\ clock' = IF Ok(c) THEN clock + 1 ELSE clock
    /\ last' = [op |-> "preset", session |-> s, upload |-> NoUpload,
                format |-> "none", from_export |-> FALSE,
                pre_count |-> QuestionCount(db, s),
                status |-> IF Ok(c) THEN 200 ELSE 500, exc |-> c.err,
                called |-> FALSE, detected |-> "none", valid |-> NotRun,
                log |-> c.log, counts |-> ZeroCounts, gen_called |-> FALSE, gen |-> "none",
                cleared |-> NoStats, body |-> NoBody]
    /\ UNCHANGED <<reader, txns>>

\* A caller of load_full_preset_state.
load_preset(s, data) ==
    /\ clock <= MaxWrites
    /\ PresetRespond(s, load_full_preset_state(Connect(db, clock, 0), s, data))

(***************************************************************************)
(* export_session_json statement by statement.  Each SELECT reads the rows *)
(* committed when it runs; other requests may commit between two of them.  *)
(* seen collects the committed states the statements have read from.       *)
(***************************************************************************)
\* The document export_session_json returns from what its statements read.
ExportAssemble(r, hints, cs) ==
    Doc(InstancesObj(
            QuestionObj(r.q_text),
            IF Truthy(r.a_text) THEN List(<<AnswerObj(r.a_text)>>) ELSE List(<<>>),
            List(hints),
            IF r.full_export /\ Truthy(r.model_name) THEN r.model_name ELSE Absent,
            IF r.full_export /\ Len(cs) > 0
            THEN List([i \in 1..Len(cs) |-> ExportCandidate(cs[i])]) ELSE Absent))

ExportReturn(r, doc) ==
    [r EXCEPT !.pc = "done", !.body = [k |-> "json", v |-> doc]]

\* qid = get_last_question_id(conn, session_id) and the `if not qid` return.
ExportReadLast(s, full_export) ==
    /\ reader.pc \in {"idle", "done"}
    /\ \/ /\ get_last_question_id(db, s) = {}
          /\ reader' = ExportReturn([Idle EXCEPT !.session = s,
                                                 !.full_export = full_export,
                                                 !.seen = {db}],
                                    Doc(EmptyInstances))
       \/ \E qid \in get_last_question_id(db, s) :
             reader' = [Idle EXCEPT !.pc = "question", !.session = s,
                                    !.full_export = full_export, !.qid = qid,
                                    !.seen = {db}]
    /\ UNCHANGED <<db, clock, last, txns>>

\* 1. SELECT text FROM questions WHERE id = qid
ExportReadQuestion ==
    /\ reader.pc = "question"
    /\ reader' = [reader EXCEPT
                    !.pc = "answer",
                    !.q_text = IF {q \in db.questions : q.id = reader.qid} = {}
                               THEN Str("")
                               ELSE (CHOOSE q \in db.questions : q.id = reader.qid).text,
                    !.seen = @ \union {db}]
    /\ UNCHANGED <<db, clock, last, txns>>

\* 2. SELECT answer_text, model_name FROM answers WHERE question_id = qid LIMIT 1
ExportReadAnswer ==
    /\ reader.pc = "answer"
    /\ \/ /\ {a \in db.answers : a.question_id = reader.qid} = {}
          /\ reader' = [reader EXCEPT !.pc = "hints", !.seen = @ \union {db}]
       \/ \E a \in {x \in db.answers : x.question_id = reader.qid} :
             reader' = [reader EXCEPT !.pc = "hints", !.a_text = a.answer_text,
                                      !.model_name = a.model_name,
                                      !.seen = @ \union {db}]
    /\ UNCHANGED <<db, clock, last, txns>>

\* 4. SELECT id, hint_text FROM hints WHERE question_id = qid ORDER BY id ASC;
\* a simple export issues no further statement.
ExportReadHints ==
    /\ reader.pc = "hints"
    /\ reader' =
         IF ~reader.full_export
         THEN ExportReturn(
                  [reader EXCEPT !.seen = @ \union {db}],
                  ExportAssemble(reader,
                                 [i \in 1..Len(ExportHintRows(db, reader.qid)) |->
                                     ExportHint(db, ExportHintRows(db, reader.qid)[i], FALSE)],
                                 <<>>))
         ELSE [reader EXCEPT
                 !.pc = IF ExportHintRows(db, reader.qid) = <<>>
                        THEN "candidates" ELSE "metrics",
                 !.hint_rows = ExportHintRows(db, reader.qid), !.i = 1,
                 !.seen = @ \union {db}]
    /\ UNCHANGED <<db, clock, last, txns>>

\* SELECT name, value, metadata_json FROM metrics WHERE hint_id = db_hint_id
ExportReadMetrics ==
    /\ reader.pc = "metrics"
    /\ reader' = [reader EXCEPT
                    !.pc = "entities",
                    !.metrics = {m \in db.metrics : m.hint_id = reader.hint_rows[reader.i].id},
                    !.seen = @ \union {db}]
    /\ UNCHANGED <<db, clock, last, txns>>

\* SELECT entity, ... FROM entities WHERE hint_id = db_hint_id, and the append
\* of hint_obj.
ExportReadEntities ==
    /\ reader.pc = "entities"
    /\ reader' = [reader EXCEPT
                    !.pc = IF reader.i = Len(reader.hint_rows)
                           THEN "candidates" ELSE "metrics",
                    !.i = @ + 1, !.metrics = {},
                    !.hints = Append(@, ExportHint([metrics |-> reader.metrics,
                                                    entities |-> db.entities],
                                                   reader.hint_rows[reader.i], TRUE)),
                    !.seen = @ \union {db}]
    /\ UNCHANGED <<db, clock, last, txns>>

\* 5. SELECT ... FROM candidate_answers WHERE question_id = qid ORDER BY id, and
\* the return.
ExportReadCandidates ==
    /\ reader.pc = "candidates"
    /\ reader' = ExportReturn(
                     [reader EXCEPT !.seen = @ \union {db}],
                     ExportAssemble(reader, reader.hints,
                                    OrderById({c \in db.candidate_answers :
                                                  c.question_id = reader.qid})))
    /\ UNCHANGED <<db, clock, last, txns>>

(***************************************************************************)
(* The inputs the requests are drawn from.                                 *)
(***************************************************************************)
H(t) == HintObj(Str(t), Absent, Absent)
HM(t, ms, es) == HintObj(Str(t), ms, es)
M1 == MetricObj(Str("convergence"), Num(1), Absent)
M2 == MetricObj(Str("familiarity"), Num(0), Str("note"))
MNoName == MetricObj(Absent, Num(1), Absent)
E1 == EntityObj(Str("Paris"), Str("GPE"), Num(0), Num(5), Absent)
Cand(t, gt) == CandObj(Str(t), Absent, Absent, gt, Absent)
Q1 == QuestionObj(Str("What is 2+2?"))
A1 == List(<<AnswerObj(Str("4"))>>)
TwoCands == List(<<Cand("4", True), Cand("5", False)>>)
Simple(q, a, hs) == Doc(InstancesObj(q, a, hs, Absent, Absent))
Full(q, a, hs, cs) == Doc(InstancesObj(q, a, hs, Absent, cs))

SimplePayloads ==
    { Simple(Q1, A1, List(<<H("Think of pairs"), H("Add one more pair")>>)),
      Simple(Q1, A1, List(<<H("Add one more pair"), H("Think of pairs")>>)),
      Simple(Q1, Absent, List(<<H("Think of pairs"), H(""), H("Add one more pair")>>)),
      Simple(Str("Capital of France?"), Absent, Absent),
      Simple(Q1, A1, List(<<H("Think of pairs"), HM("Add one more pair", List(<<M1>>), Absent)>>)),
      Simple(Q1, A1, None),
      Simple(Q1, A1, List(<<Str("Think of pairs"), Str("Add one more pair")>>)),
      Simple(Q1, A1, List(<<Str("Compare the metrics"), Str("Add one more pair")>>)),
      Simple(QuestionObj(Str(" Q2 ")), A1, List(<<H("Think of pairs"), H("  ")>>)) }

\* Payloads with no question text, and payloads that are no import document.
NoQuestionPayloads ==
    { Doc(EmptyInstances),
      Dict([instances |-> Absent]),
      Doc(None),
      List(<<>>),
      Simple(Absent, A1, List(<<H("Think of pairs")>>)),
      Simple(QuestionObj(Absent), A1, Absent),
      Simple(QuestionObj(Str("")), A1, Absent),
      Simple(Str(""), A1, Absent),
      Simple(None, A1, List(<<H("Think of pairs")>>)),
      Full(Absent, A1, Absent, TwoCands),
      Full(QuestionObj(Str("")), A1, Absent, TwoCands),
      Full(None, A1, Absent, TwoCands) }

FullHints1 ==
    List(<<HM("Think of pairs", List(<<M1, M2>>), List(<<E1>>)),
           HM("", List(<<M1>>), Absent),
           HM("Add one more pair", List(<<M2>>), Absent)>>)

FullPayloads ==
    { Full(Q1, A1, FullHints1, TwoCands),
      Full(Q1, Absent, List(<<H("Think of pairs")>>), TwoCands),
      Full(Q1, A1, Absent, List(<<Cand("4", True), Cand("5", Num(1))>>)),
      Full(Q1, A1, Absent, List(<<Cand("4", True), Cand("5", Absent)>>)),
      Full(Q1, A1, Absent, List(<<Cand("4", Num(1)), Cand("5", False)>>)),
      Full(Q1, A1, Absent, List(<<Cand("4", True)>>)),
      Full(Q1, A1, Absent, List(<<>>)),
      Full(Q1, A1, Absent, None),
      Full(Q1, A1, Absent, List(<<Cand("4", False), Cand("5", False)>>)),
      Full(Q1, A1, Absent, List(<<Cand("4", True), Cand("5", True)>>)),
      Full(Q1, A1, Absent, List(<<Cand("3", False), Cand("4", True), Cand("5", False)>>)),
      Full(Q1, A1, Absent, List(<<Cand("3", True), Cand("4", True), Cand("5", True)>>)),
      Full(Q1, A1, List(<<HM("Think of pairs", List(<<M1>>), Absent)>>), Absent),
      Full(Q1, A1, List(<<HM("Think of pairs", List(<<M1, MNoName>>), Absent)>>), TwoCands),
      Full(Q1, A1, List(<<>>), Absent) }

JsonFile(name, v) == [filename |-> Str(name), content |-> [k |-> "json", v |-> v]]
CsvFile(name, header, rows) ==
    [filename |-> Str(name), content |-> [k |-> "csv", header |-> header, rows |-> rows]]

CsvUploads ==
    { CsvFile("session.csv", <<"type", "content">>,
              << <<"question", "What is 2+2?">>, <<"answer", "4">>,
                 <<"hint", "Think of pairs">>, <<"hint", "Add one more pair">> >>),
      CsvFile("Session.CSV", <<"Type", " Content ">>,
              << <<"Question", " Q2 ">>, <<" hint ", "Think of pairs">>,
                 <<"note", "ignored">>, <<"hint", "  ">>, <<"question", "What is 2+2?">> >>),
      CsvFile("session.csv", <<"type", "content">>, << <<"hint", "Think of pairs">> >>),
      CsvFile("session.csv", <<"type", "content">>,
              << <<"question", "What is 2+2?">>, <<"hint">> >>),
      CsvFile("session.csv", <<"kind", "content">>, << <<"question", "What is 2+2?">> >>),
      [filename |-> Str("session.csv"), content |-> [k |-> "badutf8"]] }

\* Uploads the decode step rejects, or accepts under another name.
OddUploads ==
    { JsonFile("notes.txt", Simple(Q1, A1, Absent)),
      [filename |-> None, content |-> [k |-> "json", v |-> Simple(Q1, A1, Absent)]],
      JsonFile("BACKUP.JSON", Simple(Q1, A1, Absent)),
      CsvFile("backup.json", <<"type", "content">>, << <<"question", "What is 2+2?">> >>),
      [filename |-> Str("backup.json"), content |-> [k |-> "badutf8"]],
      JsonFile("session.csv", Simple(Q1, A1, Absent)) }

Uploads ==
    {JsonFile("backup.json", v) : v \in SimplePayloads \union NoQuestionPayloads \union FullPayloads}
    \union CsvUploads \union OddUploads

\* Uploads whose import is also tried with the storage rejecting a statement.
FailingUploads ==
    { JsonFile("backup.json", Full(Q1, A1, FullHints1, TwoCands)),
      JsonFile("backup.json", Simple(Q1, A1, List(<<H("Think of pairs"), H("Add one more pair")>>))),
      CsvFile("session.csv", <<"type", "content">>,
              << <<"question", "What is 2+2?">>, <<"answer", "4">>,
                 <<"hint", "Think of pairs">>, <<"hint", "Add one more pair">> >>) }

\* The file the previous request's export produced, uploaded again.
Downloaded ==
    IF last.op # "export" THEN {}
    ELSE {[filename |-> Str(CASE last.format = "csv" -> "hinteval_session.csv"
                              [] last.format = "full_json" -> "hinteval_backup_full.json"
                              [] OTHER -> "hinteval_session.json"),
           content |-> last.body]}

PM(n, v) == [name |-> Str(n), value |-> v]
PresetCands(gt, texts) == [t |-> "dict", v |-> [is_groundtruth_candidate |-> gt, candidate_texts |-> texts]]
Presets ==
    { [question |-> Str("Capital of France?"), groundTruth |-> Str("Paris"),
       hints |-> << [hint_id |-> 1, hint_text |-> Str("It is on the Seine")],
                    [hint_id |-> 2, hint_text |-> Str("Eiffel Tower")] >>,
       metricsById |-> (1 :> <<PM("convergence", Num(1)), PM("familiarity", None)>>)
                       @@ (2 :> <<PM("convergence", Num(0))>>),
       candidates |-> PresetCands(Str("Paris"), <<Str("Paris"), Str("Lyon")>>)],
      [question |-> Str("Capital of France?"), groundTruth |-> Str("Paris"),
       hints |-> << [hint_id |-> 1, hint_text |-> Str("It is on the Seine")],
                    [hint_id |-> 2, hint_text |-> Str("Eiffel Tower")] >>,
       metricsById |-> (2 :> <<PM("convergence", Num(1))>>),
       candidates |-> PresetCands(None, <<>>)],
      [question |-> Str("Largest planet?"), groundTruth |-> Str("Jupiter"),
       hints |-> <<>>, metricsById |-> <<>>,
       candidates |-> PresetCands(Str("Jupiter"), <<Str("Saturn")>>)],
      [question |-> Str("Largest planet?"), groundTruth |-> Str("Jupiter"),
       hints |-> << [hint_id |-> 1, hint_text |-> Str("A gas giant")] >>,
       metricsById |-> <<>>, candidates |-> Absent],
      [question |-> Str("Largest planet?"), groundTruth |-> Str("Jupiter"),
       hints |-> << [hint_id |-> 1, hint_text |-> Str("A gas giant")],
                    [hint_id |-> 2, hint_text |-> Str("")] >>,
       metricsById |-> (1 :> <<PM("convergence", Num(1))>>),
       candidates |-> PresetCands(None, <<>>)] }

\* Uploads that carry no answer: their import calls the answer generator.
NoAnswerUploads ==
    { JsonFile("backup.json", Simple(Str("Capital of France?"), Absent, Absent)),
      JsonFile("backup.json", Full(Q1, Absent, List(<<H("Think of pairs")>>), TwoCands)) }

\* The uploads of the two-session specification.
CoreUploads ==
    FailingUploads \union
    { JsonFile("backup.json", Full(Q1, A1, Absent, List(<<Cand("4", True), Cand("5", Num(1))>>))),
      JsonFile("backup.json", Full(Q1, A1, Absent, List(<<Cand("4", True)>>))),
      JsonFile("backup.json", Simple(Str("Capital of France?"), Absent, Absent)),
      JsonFile("notes.txt", Simple(Q1, A1, Absent)),
      JsonFile("backup.json",
               Simple(QuestionObj(Str(" Q2 ")), A1, List(<<H("Think of pairs"), H("  ")>>))) }

Next ==
    \/ \E s \in Sessions, u \in CoreUploads : import_session(s, u, "answers", 0, FALSE)
    \/ \E s \in Sessions, u \in FailingUploads, k \in 1..MaxFailAt :
          import_session(s, u, "answers", k, FALSE)
    \/ \E s \in Sessions, u \in Downloaded : import_session(s, u, "answers", 0, TRUE)
    \/ \E s \in Sessions, format \in {"json", "csv", "full_json"} : export_session(s, format)
    \/ \E s \in Sessions, k \in {0, 1} : clear_session(s, k)
    \/ \E s \in Sessions, p \in Presets : load_preset(s, p)

Spec == Init /\ [][Next]_vars

\* The import endpoint of one session under the whole range of uploads.
NextUploads ==
    \/ \E u \in Uploads : import_session("s1", u, "answers", 0, FALSE)
    \/ \E u \in NoAnswerUploads : import_session("s1", u, "raises", 0, FALSE)
    \/ \E u \in FailingUploads, k \in 1..MaxFailAt :
          import_session("s1", u, "answers", k, FALSE)

SpecUploads == Init /\ [][NextUploads]_vars

(***************************************************************************)
(* import_session_data on a connection of its own, from its DELETE to its  *)
(* commit.  The DELETE reads the rows committed when it runs; the INSERTs  *)
(* read nothing; what the transaction deleted and inserted becomes visible *)
(* at conn.commit().  A transaction whose DELETE meets rows another open   *)
(* transaction has deleted waits for that transaction to end.              *)
(***************************************************************************)
\* The statements of import_session_data up to the commit, on connection t.
ImportStart(t, s, upload) ==
    /\ clock <= MaxWrites
    /\ txns[t].pc # "open"
    /\ Decode(upload).err = NoExc
    /\ LET c == import_session_data(Connect(db, clock, 0), s, Decode(upload).data,
                                    Decode(upload).format_type, "answers")
       IN /\ Ok(c)
          /\ txns' = [o \in Txns |->
                        IF o = t
                        THEN [pc |-> "open", session |-> s, upload |-> upload, now |-> clock,
                              deleted |-> [k \in DOMAIN db |-> db[k] \ c.d[k]],
                              inserted |-> [k \in DOMAIN db |-> c.d[k] \ db[k]],
                              counts |-> c.counts,
                              overlaps |-> {txns[x].now : x \in {y \in Txns \ {t} :
                                                                   txns[y].pc = "open"}}]
                        ELSE IF txns[o].pc = "open"
                        THEN [txns[o] EXCEPT !.overlaps = @ \union {clock}]
                        ELSE txns[o]]
    /\ clock' = clock + 1
    /\ UNCHANGED <<db, last, reader>>

\* conn.commit() of connection t and the handler's response.
ImportCommit(t) ==
    /\ txns[t].pc = "open"
    /\ \A o \in Txns \ {t} :
          ~ /\ txns[o].pc = "open"
            /\ txns[o].now < txns[t].now
            /\ txns[o].deleted.questions \cap txns[t].deleted.questions # {}
    /\ db' = [k \in DOMAIN db |-> (db[k] \ txns[t].deleted[k]) \union txns[t].inserted[k]]
    /\ txns' = [txns EXCEPT ![t].pc = "committed"]
    /\ last' = [last EXCEPT !.op = "import", !.session = txns[t].session,
                            !.upload = txns[t].upload,
                            !.format = Decode(txns[t].upload).format_type,
                            !.from_export = FALSE,
                            !.pre_count = QuestionCount(db, txns[t].session),
                            !.status = 200, !.exc = NoExc, !.called = TRUE,
                            !.counts = txns[t].counts, !.cleared = ClearStats,
                            !.body = NoBody]
    /\ UNCHANGED <<clock, reader>>

(***************************************************************************)
(* The detector and the validator on their own, over a range of payloads.  *)
(***************************************************************************)
\* The is_groundtruth values a candidate may carry.
GtFlags == {True, False, Absent, Num(1)}
CandTexts == <<"3", "4", "5", "6", "7">>

\* Every candidates_full list of up to MaxCands candidates.
CandLists ==
    UNION {{List([i \in 1..n |-> Cand(CandTexts[i], f[i])]) : f \in [1..n -> GtFlags]}
           : n \in 0..MaxCands}

ValidateInputs ==
    {Full(Q1, A1, Absent, cs) : cs \in CandLists}
    \union { Doc(EmptyInstances), Dict([instances |-> Absent]), Doc(None),
             Full(Q1, A1, Absent, None),
             Full(Q1, A1, List(<<HM("Think of pairs", List(<<M1>>), Absent)>>), Absent) }

HintLists ==
    { Absent, None, List(<<>>),
      List(<<H("Think of pairs")>>),
      List(<<HM("Think of pairs", List(<<M1>>), Absent)>>),
      List(<<HM("Think of pairs", List(<<>>), Absent)>>),
      List(<<HM("Think of pairs", None, Absent)>>),
      List(<<H("Think of pairs"), HM("Add one more pair", List(<<M1>>), Absent)>>),
      List(<<Str("Think of pairs")>>),
      List(<<Str("Compare the metrics")>>),
      List(<<None, HM("Add one more pair", List(<<M1>>), Absent)>>),
      Str("Think of pairs") }

DetectInputs ==
    {Doc(InstancesObj(q, A1, hs, Absent, cs)) :
        q \in {Absent, Q1}, hs \in HintLists, cs \in {Absent, None, List(<<>>), TwoCands}}
    \union { Doc(EmptyInstances), Dict([instances |-> Absent]), Doc(None),
             Doc(List(<<>>)), Doc(Str("Think of pairs")), Doc(Num(1)),
             List(<<>>), None, Num(1), Str("Think of pairs") }

Applied(op, data, detected, valid) ==
    [op |-> op, session |-> "", upload |-> JsonFile("payload", data), format |-> "json",
     from_export |-> FALSE, pre_count |-> 0, status |-> 0, exc |-> NoExc,
     called |-> FALSE, detected |-> detected, valid |-> valid, log |-> <<>>,
     counts |-> ZeroCounts, gen_called |-> FALSE, gen |-> "none", cleared |-> NoStats, body |-> NoBody]

\* A call of the detector on a parsed payload.
detect_format(data) ==
    /\ last' = Applied("detect", data, DetectFormat(data), NotRun)
    /\ UNCHANGED <<db, clock, reader, txns>>

\* A call of validate_full_import_structure on a parsed payload.
validate_structure(data) ==
    /\ last' = Applied("validate", data, "none", validate_full_import_structure(data))
    /\ UNCHANGED <<db, clock, reader, txns>>

NextFormats ==
    \/ \E data \in DetectInputs : detect_format(data)
    \/ \E data \in ValidateInputs : validate_structure(data)

SpecFormats == Init /\ [][NextFormats]_vars

(***************************************************************************)
(* An export of session s1, statement by statement, beside the imports of  *)
(* the same session, which run whole or as transactions of two             *)
(* connections.                                                            *)
(***************************************************************************)
ReaderUploads ==
    { JsonFile("backup.json", Full(Q1, A1, FullHints1, TwoCands)),
      JsonFile("backup.json",
               Simple(Str("Capital of France?"), List(<<AnswerObj(Str("Paris"))>>),
                      List(<<H("It is on the Seine")>>))) }

NextReaders ==
    \/ \E u \in ReaderUploads :
          /\ \A t \in Txns : txns[t].pc # "open"
          /\ import_session("s1", u, "answers", 0, FALSE)
    \/ \E t \in Txns, u \in ReaderUploads : ImportStart(t, "s1", u)
    \/ \E t \in Txns : ImportCommit(t)
    \/ \E full_export \in BOOLEAN : ExportReadLast("s1", full_export)
    \/ ExportReadQuestion
    \/ ExportReadAnswer
    \/ ExportReadHints
    \/ ExportReadMetrics
    \/ ExportReadEntities
    \/ ExportReadCandidates

SpecReaders == Init /\ [][NextReaders]_vars

(***************************************************************************)
(* Two sessions under imports that succeed or fail at a statement, clears  *)
(* and exports.                                                            *)
(***************************************************************************)
NextSessions ==
    \/ \E s \in Sessions, u \in ReaderUploads : import_session(s, u, "answers", 0, FALSE)
    \/ \E s \in Sessions, u \in ReaderUploads, k \in 1..MaxFailAt :
          import_session(s, u, "answers", k, FALSE)
    \/ \E s \in Sessions, format \in {"json", "csv", "full_json"} : export_session(s, format)
    \/ \E s \in Sessions, k \in {0, 1} : clear_session(s, k)

SpecSessions == Init /\ [][NextSessions]_vars

(***************************************************************************)
(* One session that preset loads fill with several questions before an     *)
(* import replaces them.                                                   *)
(***************************************************************************)
MaxLoads == 3

NextReimport ==
    \/ \E p \in Presets :
          /\ clock <= MaxLoads
          /\ PresetRespond("s1", load_full_preset_state(Connect(db, clock, 0), "s1", p))
    \/ \E u \in CoreUploads \union {JsonFile("backup.json", d) : d \in NoQuestionPayloads} :
          /\ clock <= MaxLoads
          /\ ImportDecoded("s1", u, "answers", 0, FALSE, Decode(u))
    \/ \E u \in NoAnswerUploads :
          /\ clock <= MaxLoads
          /\ ImportDecoded("s1", u, "raises", 0, FALSE, Decode(u))

SpecReimport == Init /\ [][NextReimport]_vars

(***************************************************************************)
(* The properties.                                                         *)
(***************************************************************************)
\* The statements a request issued that insert a row.
Inserts(log) == {i \in 1..Len(log) : log[i][1] = "INSERT"}

\* C1: an import that raises inside import_session_data once the clear has
\* been issued is rolled back: every table holds exactly the rows it held
\* before the request, and the exception reaches the caller, who answers
\* with an error status.
C1_RollbackRestores ==
    [][(last'.op = "import" /\ last'.called /\ Len(last'.log) > 0
        /\ last'.exc # NoExc)
       => (db' = db /\ last'.status \in {400, 500})]_vars

\* An import into a session that holds rows, rejected by the storage at an
\* INSERT after the clear: the rows are still there.
C1_Witness ==
    /\ last.op = "import" /\ last.exc.type = "DatabaseError"
    /\ Len(last.log) >= 4 /\ last.pre_count > 0
    /\ QuestionCount(db, last.session) = last.pre_count

\* C2: when the payload is classified full_backup and the validator fails,
\* the import raises the validator's error with no DELETE and no INSERT
\* issued, and every table is as before.
C2_ValidationBeforeClear ==
    [][(last'.op = "import" /\ last'.detected = "full_backup"
        /\ last'.valid # NoExc)
       => (last'.log = <<>> /\ db' = db /\ last'.exc = last'.valid)]_vars

\* A full backup with a bad candidate list sent to a session that holds rows.
C2_Witness ==
    /\ last.op = "import" /\ last.detected = "full_backup"
    /\ last.valid.type = "ValueError" /\ last.pre_count > 0
    /\ QuestionCount(db, last.session) = last.pre_count

\* The elements of a list-valued field under a view; none where it is no list.
ViewList(x, F(_)) == IF x.t = "list" THEN [i \in 1..Len(x.v) |-> F(x.v[i])] ELSE <<>>

MetricView(m) == [name |-> m.v.name, value |-> m.v.value]
EntityView(e) == [text |-> e.v.text, type |-> e.v.type, start |-> e.v.start, end |-> e.v.end]
HintView(h) ==
    [hint |-> h.v.hint, metrics |-> ViewList(h.v.metrics, MetricView),
     entities |-> ViewList(h.v.entities, EntityView)]
CandView(c) ==
    [text |-> c.v.text, is_eliminated |-> c.v.is_eliminated,
     is_groundtruth |-> c.v.is_groundtruth]

\* What a round trip must keep of an export document: everything but the
\* timestamps, the ids and the model name.
RoundTripView(doc) ==
    [question |-> doc.v.instances.v.question,
     answers |-> doc.v.instances.v.answers,
     hints |-> ViewList(doc.v.instances.v.hints, HintView),
     candidates |-> ViewList(doc.v.instances.v.candidates_full, CandView)]

\* C3: importing a full export into an empty session gives a session whose
\* full export equals the first one in question, answer, hints, metrics,
\* entities and candidate flags.
C3_RoundTrip ==
    [][(last'.op = "import" /\ last'.from_export /\ last.format = "full_json"
        /\ QuestionCount(db, last'.session) = 0)
       => \A doc \in export_session_json(db', last'.session, TRUE) :
              RoundTripView(doc) = RoundTripView(last.body.v)]_vars

\* C4: on the import endpoint a decode failure or a validation failure is
\* answered 4xx, a statement the storage rejects 5xx.
C4_StatusClasses ==
    last.op = "import" =>
        /\ (~last.called \/ last.valid \notin {NotRun, NoExc}) => last.status \in 400..499
        /\ last.exc.type = "DatabaseError" => last.status \in 500..599

\* The candidates_full entries of a payload, and how many of them carry
\* is_groundtruth true.
PayloadCandidates(data) ==
    IF IsDict(data.v.instances) /\ data.v.instances.v.candidates_full.t = "list"
    THEN data.v.instances.v.candidates_full.v ELSE <<>>
TrueFlags(cands) ==
    Cardinality({i \in 1..Len(cands) : cands[i].v.is_groundtruth = True})

\* C5: the validator passes exactly when instances is non-empty, there are
\* at least 2 candidates and exactly one has is_groundtruth true; with fewer
\* than 2 candidates it raises the count error, with 2 or more and a
\* ground-truth count other than 1 the error that carries that count.
C5_Validator ==
    last.op = "validate" =>
        /\ last.valid = NoExc <=>
               /\ Truthy(last.upload.content.v.v.instances)
               /\ Len(PayloadCandidates(last.upload.content.v)) >= 2
               /\ TrueFlags(PayloadCandidates(last.upload.content.v)) = 1
        /\ (Truthy(last.upload.content.v.v.instances)
            /\ Len(PayloadCandidates(last.upload.content.v)) < 2)
           => last.valid = Exc("ValueError", COUNT_ERROR, 0)
        /\ (Len(PayloadCandidates(last.upload.content.v)) >= 2
            /\ TrueFlags(PayloadCandidates(last.upload.content.v)) # 1)
           => last.valid = Exc("ValueError", GT_ERROR,
                               TrueFlags(PayloadCandidates(last.upload.content.v)))

\* The validator passing three candidates of which the second alone is the
\* ground truth and the third carries the number 1.
C5_Witness ==
    /\ last.op = "validate" /\ last.valid = NoExc
    /\ Len(PayloadCandidates(last.upload.content.v)) = 3
    /\ PayloadCandidates(last.upload.content.v)[2].v.is_groundtruth = True
    /\ PayloadCandidates(last.upload.content.v)[3].v.is_groundtruth = Num(1)

\* The class the detector is to give a payload.
SpecifiedFormat(data) ==
    IF /\ IsDict(data) /\ HasKey(data, "instances") /\ IsDict(data.v.instances)
       /\ \/ HasKey(data.v.instances, "candidates_full")
          \/ /\ data.v.instances.v.hints.t = "list"
             /\ Len(data.v.instances.v.hints.v) > 0
             /\ IsDict(data.v.instances.v.hints.v[1])
             /\ HasKey(data.v.instances.v.hints.v[1], "metrics")
    THEN "full_backup"
    ELSE IF IsDict(data) /\ HasKey(data, "instances") THEN "simple"
    ELSE "invalid"

\* C6: the detector answers full_backup iff the payload has an instances
\* object with candidates_full present or with a non-empty hints sequence
\* whose first element has a metrics field; otherwise simple iff the
\* instances key is present; otherwise invalid.  It raises for no payload.
C6_Detector ==
    last.op = "detect" =>
        /\ last.detected \in {"full_backup", "simple", "invalid"}
        /\ last.detected = SpecifiedFormat(last.upload.content.v)

\* A question field that holds no text.
NoText(q) ==
    \/ q.t \in {"absent", "none"}
    \/ q = Str("")
    \/ IsDict(q) /\ (q.v.question.t \in {"absent", "none"} \/ q.v.question = Str(""))

\* An upload the decode step accepts whose payload carries no question text.
NoQuestionText(upload) ==
    IF Decode(upload).format_type = "csv"
    THEN /\ parse_csv_to_structure(upload.content).err = NoExc
         /\ parse_csv_to_structure(upload.content).struct.v.question = Str("")
    ELSE IF IsDict(Decode(upload).data) /\ IsDict(Decode(upload).data.v.instances)
    THEN NoText(Decode(upload).data.v.instances.v.question)
    ELSE TRUE

\* C7: an import whose payload carries no question text fails, inserts no
\* row, and leaves the rows the session held.
C7_NoQuestionText ==
    [][(last'.op = "import" /\ last'.called /\ NoQuestionText(last'.upload))
       => (last'.status # 200 /\ Inserts(last'.log) = {} /\ db' = db)]_vars

\* An upload whose name ends in neither .json nor .csv, or a .json upload
\* whose content is no JSON text.
Rejected(upload) ==
    \/ /\ ~EndsWith(LowerName(upload.filename), ".json")
       /\ ~EndsWith(LowerName(upload.filename), ".csv")
    \/ /\ EndsWith(LowerName(upload.filename), ".json")
       /\ upload.content.k # "json"

\* C8: such an upload is refused without import_session_data being called
\* and without a statement being issued; every table is as before.
C8_RejectedBeforeStorage ==
    [][(last'.op = "import" /\ Rejected(last'.upload))
       => (~last'.called /\ last'.log = <<>> /\ db' = db /\ last'.status # 200)]_vars

\* notes.txt refused by a session that holds rows.
C8_Witness ==
    /\ last.op = "import" /\ last.upload.filename = Str("notes.txt")
    /\ ~last.called /\ last.pre_count > 0
    /\ QuestionCount(db, last.session) = last.pre_count

\* The non-empty hint texts of an upload, in payload order.
ImportedHintTexts(upload) ==
    SelectSeq(ViewList(IF Decode(upload).format_type = "csv"
                       THEN parse_csv_to_structure(upload.content).struct.v.hints
                       ELSE Decode(upload).data.v.instances.v.hints,
                       HintText),
              Truthy)

\* The hint texts of an export document, in document order.
ExportedHintTexts(doc) ==
    [i \in 1..Len(doc.v.instances.v.hints.v) |-> doc.v.instances.v.hints.v[i].v.hint]

\* C9: an export that follows a successful import into the same session
\* lists exactly the non-empty hints of the payload, in payload order.
C9_HintOrder ==
    [][(last.op = "import" /\ last.status = 200 /\ last'.op = "export"
        /\ last'.session = last.session /\ last'.format \in {"json", "full_json"})
       => ExportedHintTexts(last'.body.v) = ImportedHintTexts(last.upload)]_vars

\* An export of the two hints of an imported payload that also held an empty
\* hint between them, the second with its metrics.
C9_Witness ==
    /\ last.op = "export" /\ last.format = "full_json"
    /\ last.body.v.v.instances.v.hints.t = "list"
    /\ ExportedHintTexts(last.body.v) = <<Str("Think of pairs"), Str("Add one more pair")>>
    /\ last.body.v.v.instances.v.hints.v[2].v.metrics.t = "list"

\* A response that reports n deletions at the question level.
ReportsDeletions(r, n) == "deleted" \in DOMAIN r /\ r.deleted = n

\* C10: a clear leaves the session without rows, so that its export is the
\* empty-instances shape; on a session that is already empty it changes
\* nothing and reports zero deleted questions.
C10_Clear ==
    [][(last'.op = "clear" /\ last'.status = 200)
       => /\ SessionRows(db', last'.session) = EmptyDb
          /\ export_session_json(db', last'.session, TRUE) = {Doc(EmptyInstances)}
          /\ QuestionCount(db, last'.session) = 0
             => (db' = db /\ ReportsDeletions(last'.cleared, 0))]_vars

\* C11: the export of a session that owns no question succeeds with exactly
\* {"instances": {}} in simple and in full mode, and its CSV export holds
\* the header row type,content and no other row.
C11_EmptyExport ==
    (last.op = "export" /\ QuestionCount(db, last.session) = 0) =>
        /\ last.status = 200
        /\ last.format \in {"json", "full_json"}
           => last.body = [k |-> "json", v |-> Doc(EmptyInstances)]
        /\ last.format = "csv"
           => last.body = [k |-> "csv", header |-> <<"type", "content">>, rows |-> <<>>]

\* The CSV export of a session that owns no question, while the other session
\* holds rows.
C11_Witness ==
    /\ last.op = "export" /\ last.format = "csv"
    /\ QuestionCount(db, last.session) = 0
    /\ db.questions # {} /\ clock > 1
    /\ last.body.rows = <<>>

\* The simple structure of a simple export document in the flat shape the
\* CSV parser returns.
FlatStructure(doc) ==
    IF ~Truthy(doc.v.instances) THEN StructObj(Str(""), Str(""), List(<<>>))
    ELSE StructObj(doc.v.instances.v.question.v.question,
                   FirstAnswer(doc.v.instances.v.answers),
                   doc.v.instances.v.hints)

\* C12: parsing the CSV an export produced gives the simple structure of
\* the session: the same question, answer and hints in the same order.  (No
\* text of the model holds a comma or a newline.)
C12_CsvRoundTrip ==
    (last.op = "export" /\ last.format = "csv") =>
        /\ parse_csv_to_structure(last.body).err = NoExc
        /\ \E doc \in export_session_json(db, last.session, FALSE) :
               parse_csv_to_structure(last.body).struct = FlatStructure(doc)

\* A structure whose texts carry no leading or trailing whitespace and
\* whose hints are not empty.
Trimmed(st) ==
    /\ Strip(st.v.question.v) = st.v.question.v
    /\ Strip(st.v.answer.v) = st.v.answer.v
    /\ \A i \in 1..Len(st.v.hints.v) :
           /\ st.v.hints.v[i].v.hint.v # ""
           /\ Strip(st.v.hints.v[i].v.hint.v) = st.v.hints.v[i].v.hint.v

\* C12 as amended: the round trip gives the same structure when, besides,
\* no text has leading or trailing whitespace and no hint text is empty.
C12_CsvRoundTripTrimmed ==
    (last.op = "export" /\ last.format = "csv") =>
        \A doc \in export_session_json(db, last.session, FALSE) :
            Trimmed(FlatStructure(doc)) =>
                /\ parse_csv_to_structure(last.body).err = NoExc
                /\ parse_csv_to_structure(last.body).struct = FlatStructure(doc)

\* A CSV export of a question, an answer and two hints that parses back to
\* the structure exported.
C12_Witness ==
    /\ last.op = "export" /\ last.format = "csv"
    /\ Len(last.body.rows) = 4
    /\ parse_csv_to_structure(last.body).struct.v.hints.v
         = <<H("Think of pairs"), H("Add one more pair")>>
    /\ \A doc \in export_session_json(db, last.session, FALSE) :
           Trimmed(FlatStructure(doc))

\* The normalised header of a CSV upload, and the trimmed cell of a data row
\* under a column; a cell the row lacks is blank.
FieldNames(content) == [i \in 1..Len(content.header) |-> Lower(Strip(content.header[i]))]
Cell(content, i, col) ==
    IF RowGet(FieldNames(content), content.rows[i], col).t = "str"
    THEN Strip(RowGet(FieldNames(content), content.rows[i], col).v)
    ELSE ""

\* The data rows of a type whose content is not blank, in file order.
RowsOfType(content, ty) ==
    SelectSeq([i \in 1..Len(content.rows) |-> i],
              LAMBDA i : Lower(Cell(content, i, "type")) = ty /\ Cell(content, i, "content") # "")

\* The content of the last such row; "" where there is none.
LastOfType(content, ty) ==
    IF RowsOfType(content, ty) = <<>> THEN Str("")
    ELSE Str(Cell(content, RowsOfType(content, ty)[Len(RowsOfType(content, ty))], "content"))

\* C13: the CSV parser gives the question and the answer of the last
\* question and answer rows, and the hint rows in file order; rows with
\* blank content and rows of another type change nothing.
C13_CsvDispatch ==
    (last.op = "import" /\ last.format = "csv" /\ last.upload.content.k = "csv") =>
        parse_csv_to_structure(last.upload.content) =
            [struct |-> StructObj(LastOfType(last.upload.content, "question"),
                                  LastOfType(last.upload.content, "answer"),
                                  List([j \in 1..Len(RowsOfType(last.upload.content, "hint")) |->
                                          HintObj(Str(Cell(last.upload.content,
                                                           RowsOfType(last.upload.content, "hint")[j],
                                                           "content")),
                                                  Absent, Absent)])),
             err |-> NoExc]

\* The answer text an upload supplies; "" where it supplies none.
SuppliedAnswer(upload) ==
    IF Decode(upload).format_type = "csv"
    THEN parse_csv_to_structure(upload.content).struct.v.answer
    ELSE FirstAnswer(Get(Decode(upload).data.v.instances, "answers", List(<<>>)))

\* C14: a successful import that supplies no answer text has called the
\* answer generator and stores the answer under the default model; when the
\* generator raised, the import still succeeds: the answer row holds the
\* placeholder, the hints of the payload are stored and the rows are
\* committed.
C14_GenerationFallback ==
    (last.op = "import" /\ last.called) =>
        /\ (last.status = 200 /\ ~Truthy(SuppliedAnswer(last.upload)))
           => /\ last.gen_called
              /\ \A a \in SessionRows(db, last.session).answers :
                     a.model_name = Str(DEFAULT_MODEL)
        /\ (last.gen_called /\ last.gen = "raises")
           => /\ last.status = 200
              /\ {a.answer_text : a \in SessionRows(db, last.session).answers}
                   = {Str(GEN_FAILED)}
              /\ Cardinality(SessionRows(db, last.session).hints)
                   = Len(ImportedHintTexts(last.upload))
              /\ Cardinality(SessionRows(db, last.session).questions) = 1

\* A full backup without an answer, imported while the generator raises:
\* placeholder answer, the hint and the two candidates stored.
C14_Witness ==
    /\ last.op = "import" /\ last.gen_called /\ last.gen = "raises"
    /\ last.detected = "full_backup" /\ last.status = 200
    /\ Cardinality(SessionRows(db, last.session).hints) = 1
    /\ Cardinality(SessionRows(db, last.session).candidate_answers) = 2
    /\ \E a \in db.answers : a.answer_text = Str(GEN_FAILED)

\* The hints of a full backup that have a text, and the number of elements
\* their list-valued field k holds in all.
TextedHints(data) ==
    SelectSeq(Elements(Get(data.v.instances, "hints", List(<<>>))),
              LAMBDA h : Truthy(Get(h, "hint", Str(""))))

RECURSIVE PartsOf(_, _, _)
PartsOf(hints, k, i) ==
    IF i > Len(hints) THEN 0
    ELSE Len(Elements(Get(hints[i], k, List(<<>>)))) + PartsOf(hints, k, i + 1)

C16_NoMixture ==
    reader.pc = "done" =>
        \E d \in reader.seen :
            reader.body.v \in export_session_json(d, reader.session, reader.full_export)

\* C17: a request on one session, whether it succeeds or fails, leaves the
\* rows every other session owns unchanged, and with them what an export of
\* the other session returns in each format.
C17_SessionsIndependent ==
    [][\A b \in Sessions \ {last'.session} :
          /\ SessionRows(db', b) = SessionRows(db, b)
          /\ export_session_json(db', b, TRUE) = export_session_json(db, b, TRUE)
          /\ export_session_json(db', b, FALSE) = export_session_json(db, b, FALSE)
          /\ export_session_csv_stream(db', b) = export_session_csv_stream(db, b)]_vars

\* Session s1 has deleted its question by a clear while session s2 holds a
\* question with hints.
C17_Witness ==
    /\ last.op = "clear" /\ last.session = "s1" /\ last.status = 200
    /\ last.pre_count > 0
    /\ SessionRows(db, "s1").questions = {}
    /\ SessionRows(db, "s2").hints # {}

\* The questions of a session that are not the one inserted last, and the
\* store without them and their dependents.
OlderQuestions(d, s) ==
    {q \in d.questions :
        /\ q.session_id = s
        /\ \E y \in d.questions : y.session_id = s /\ y.id > q.id}

WithoutOlder(d, s) ==
    LET qids == {q.id : q \in OlderQuestions(d, s)}
        hids == {h.id : h \in {x \in d.hints : x.question_id \in qids}}
    IN [questions |-> {x \in d.questions : x.id \notin qids},
        answers |-> {x \in d.answers : x.question_id \notin qids},
        hints |-> {x \in d.hints : x.question_id \notin qids},
        metrics |-> {x \in d.metrics : x.hint_id \notin hids},
        entities |-> {x \in d.entities : x.hint_id \notin hids},
        candidate_answers |-> {x \in d.candidate_answers : x.question_id \notin qids}]

\* C18: a preset load keeps the rows the session already owns, and an export
\* of a session is the export of its most recently inserted question alone:
\* it carries that question's text and is what the export would be were the
\* older questions and their dependents not stored.
C18_ExportsNewestOnly ==
    [][/\ (last'.op = "preset" /\ last'.status = 200)
          => /\ \A t \in DOMAIN db :
                   SessionRows(db, last'.session)[t] \subseteq SessionRows(db', last'.session)[t]
             /\ QuestionCount(db', last'.session) = QuestionCount(db, last'.session) + 1
       /\ \A s \in Sessions, full_export \in BOOLEAN :
             /\ export_session_json(db', s, full_export)
                    = export_session_json(WithoutOlder(db', s), s, full_export)
             /\ \A doc \in export_session_json(db', s, full_export),
                   q \in {x \in db'.questions : x.session_id = s} \ OlderQuestions(db', s) :
                     doc.v.instances.v.question.v.question = q.text]_vars

\* A session that holds two questions after a second preset load: the older
\* one, with its hints and candidates, is stored and the full export shows
\* the newer one, which has no hint.
C18_Witness ==
    /\ last.op = "preset" /\ last.status = 200
    /\ QuestionCount(db, last.session) = 2
    /\ \E q \in OlderQuestions(db, last.session) :
          /\ q.text = Str("Capital of France?")
          /\ \E h \in db.hints : h.question_id = q.id
          /\ \E c \in db.candidate_answers : c.question_id = q.id
    /\ \E doc \in export_session_json(db, last.session, TRUE) :
          /\ doc.v.instances.v.question.v.question = Str("Largest planet?")
          /\ doc.v.instances.v.hints = List(<<>>)

\* C19: in every committed state every answer, hint and candidate answer
\* references a stored question and every metric and entity references a
\* stored hint, so no dependent of a deleted question is left behind.
C19_References ==
    /\ \A a \in db.answers : \E q \in db.questions : q.id = a.question_id
    /\ \A h \in db.hints : \E q \in db.questions : q.id = h.question_id
    /\ \A c \in db.candidate_answers : \E q \in db.questions : q.id = c.question_id
    /\ \A m \in db.metrics : \E h \in db.hints : h.id = m.hint_id
    /\ \A e \in db.entities : \E h \in db.hints : h.id = e.hint_id

\* A session that held a question has imported a full backup again: the
\* old question is gone and the store holds metrics, entities and
\* candidates of the new one.
C19_Witness ==
    /\ last.op = "import" /\ last.status = 200 /\ last.pre_count > 0
    /\ QuestionCount(db, last.session) = 1
    /\ db.metrics # {} /\ db.entities # {} /\ db.candidate_answers # {}

\* The question text an upload carries, as the importer reads it.
ImportedQuestionText(upload) ==
    IF Decode(upload).format_type = "csv"
    THEN parse_csv_to_structure(upload.content).struct.v.question
    ELSE QuestionText(Get(Decode(upload).data.v.instances, "question", QuestionObj(Absent)))

\* C20: after a successful import, whatever the session held before, the
\* session owns exactly one question, carrying the imported question text,
\* and exactly one answer row; every export of the session then returns the
\* imported question text.
C20_OneQuestionAfterImport ==
    (last.op = "import" /\ last.status = 200) =>
        /\ {q.text : q \in SessionRows(db, last.session).questions}
               = {ImportedQuestionText(last.upload)}
        /\ Cardinality(SessionRows(db, last.session).questions) = 1
        /\ Cardinality(SessionRows(db, last.session).answers) = 1
        /\ \A full_export \in BOOLEAN :
              \A doc \in export_session_json(db, last.session, full_export) :
                 doc.v.instances.v.question.v.question = ImportedQuestionText(last.upload)

\* A successful import into a session that held two questions.
C20_Witness ==
    /\ last.op = "import" /\ last.status = 200 /\ last.pre_count = 2
    /\ Cardinality(SessionRows(db, last.session).questions) = 1

\* C21: after a successful full-backup import the session's question has at
\* least two candidate answers stored and exactly one of them is stored with
\* is_groundtruth true.
C21_OneGroundTruthStored ==
    (last.op = "import" /\ last.status = 200 /\ last.detected = "full_backup") =>
        /\ Cardinality(SessionRows(db, last.session).candidate_answers) >= 2
        /\ Cardinality({c \in SessionRows(db, last.session).candidate_answers :
                            c.is_groundtruth = True}) = 1

\* C22: when two imports into the same session have run on separate
\* connections at the same time and both have committed, the session owns
\* exactly one question.
C22_OneQuestionAfterBoth ==
    [][\A t \in Txns, o \in Txns :
          (/\ txns[t].pc = "open" /\ txns'[t].pc = "committed"
           /\ txns[o].pc = "committed"
           /\ txns[o].now \in txns[t].overlaps
           /\ txns[o].session = txns[t].session)
          => QuestionCount(db', txns[t].session) = 1]_vars

====
